---------------------------- MODULE Spec2Model ----------------------------
(***************************************************************************)
(* Model of src/main.cpp of carpet_hdf5_to_openvdb: the conversion of the  *)
(* datasets of one HDF5 file into OpenVDB grids (main and writevdb).       *)
(*                                                                         *)
(* One run of the program is one behaviour.  The input (the objects of the *)
(* HDF5 file and the command line) is chosen in Init; the actions are the  *)
(* steps of main and of writevdb in program order.                         *)
(*                                                                         *)
(* Scaling.  `unsigned' and Int32 are UnsignedBits wide instead of 32, and *)
(* `float' keeps FloatMantissaBits significant bits instead of 24, so that *)
(* truncation and rounding happen on numbers TLC can enumerate.  `double'  *)
(* attribute values are integers (all exactly representable as double).    *)
(* Dataset values and the offset are exact rationals n/d, with d = 0 for   *)
(* the IEEE non-finite results (0/0 is NaN, +-1/0 is +-Inf); the rounding  *)
(* of float arithmetic on the values is not modelled.                      *)
(* The print-only modes of main (printContent, printDatasetContent, help)  *)
(* write no grid and are not modelled.                                     *)
(***************************************************************************)
EXTENDS Integers, Sequences, FiniteSets, TLC

(* ------------------------------ bounds -------------------------------- *)

\* width in bits of `unsigned' and of openvdb's Int32 (32 in the build)
UnsignedBits == 2
\* significant bits kept by a cast to `float' (24 in the build)
FloatMantissaBits == 2
\* largest extent of a dataset along one axis
MaxDim == 3
\* largest number of objects in the root group of the input file
MaxObjs == 2

(* --------------------------- arithmetic -------------------------------- *)

Abs(n) == IF n < 0 THEN -n ELSE n

Sign(n) == IF n < 0 THEN -1 ELSE IF n > 0 THEN 1 ELSE 0

RECURSIVE Pow2(_)
Pow2(k) == IF k = 0 THEN 1 ELSE 2 * Pow2(k - 1)

RECURSIVE GCD(_, _)
GCD(a, b) == IF b = 0 THEN a ELSE GCD(b, a % b)

\* the rational n/d in lowest terms; d = 0 keeps only the sign of n
Rat(n, d) ==
    IF d = 0 THEN [n |-> Sign(n), d |-> 0]
    ELSE LET g == GCD(Abs(n), d) IN [n |-> n \div g, d |-> d \div g]

RInt(n) == [n |-> n, d |-> 1]

IsFinite(a) == a.d # 0

\* a < b on finite values (operator< of float)
RLess(a, b) == a.n * b.d < b.n * a.d

\* std::min(a, b): b if b < a, else a
StdMin(a, b) == IF RLess(b, a) THEN b ELSE a

\* std::max(a, b): b if a < b, else a
StdMax(a, b) == IF RLess(a, b) THEN b ELSE a

\* a - b on finite values
RSub(a, b) == Rat(a.n * b.d - b.n * a.d, a.d * b.d)

\* a / b on finite values: x/0 is NaN for x = 0 and +-Inf otherwise
RDiv(a, b) ==
    IF b.n = 0 THEN [n |-> Sign(a.n), d |-> 0]
    ELSE Rat(a.n * b.d * Sign(b.n), a.d * Abs(b.n))

\* a + b, b finite: NaN and +-Inf absorb a finite summand
RAdd(a, b) ==
    IF a.d = 0 THEN a
    ELSE Rat(a.n * b.d + b.n * a.d, a.d * b.d)

\* conversion of a 64-bit value to `unsigned'
ToUnsigned(n) == n % Pow2(UnsignedBits)

\* conversion of an hsize_t loop index to Int32 (the arguments of Coord)
ToInt32(n) ==
    ((n + Pow2(UnsignedBits - 1)) % Pow2(UnsignedBits)) - Pow2(UnsignedBits - 1)

\* number of bits of n > 0
RECURSIVE BitLen(_)
BitLen(n) == IF n = 0 THEN 0 ELSE 1 + BitLen(n \div 2)

\* the cast (float)v of an integral double: round to FloatMantissaBits
\* significant bits, ties to the even mantissa
ToFloat(v) ==
    LET m    == Abs(v)
        drop == BitLen(m) - FloatMantissaBits
    IN  IF drop <= 0 THEN v
        ELSE LET ulp == Pow2(drop)
                 q   == m \div ulp
                 r   == m % ulp
                 up  == (2 * r > ulp) \/ (2 * r = ulp /\ q % 2 = 1)
             IN  Sign(v) * ulp * (IF up THEN q + 1 ELSE q)

RECURSIVE Product(_)
Product(s) == IF s = << >> THEN 1 ELSE Head(s) * Product(Tail(s))


(* ------------------------- the HDF5 input file ------------------------- *)

\* sizeof(float), the divisor of getInMemDataSize() in writevdb
SizeofFloat == 4

\* an object of the root group.  dims is the simple extent (its length is
\* the rank), elemSize the size in bytes of the native in-memory type,
\* fill = <<b, s>> the stored values b, b+s, b+2s, ... in row-major order,
\* hasAttrs whether the attributes "origin" and "delta" exist.
Object(typeId, class, dims, elemSize, fill, hasAttrs, origin, delta) ==
    [name |-> << >>, typeId |-> typeId, class |-> class, dims |-> dims,
     elemSize |-> elemSize, fill |-> fill, hasAttrs |-> hasAttrs,
     origin |-> origin, delta |-> delta]

Group ==
    Object("H5G_GROUP", "H5T_NO_CLASS", << >>, 0, <<0, 0>>, FALSE,
           <<0, 0, 0>>, <<1, 1, 1>>)

\* the k-th object name of the root group; HDF5 keeps the names of one
\* group distinct.  Carpet names look like "rho it=0 tl=0 rl=1 c=2".
NameAt(k) ==
    IF k % 2 = 1 THEN <<"r", "h", "o", " ", "i", "t", "=", ToString(k), ":">>
                 ELSE <<"p", "h", "i", ToString(k)>>

\* DataSpace::getSimpleExtentNpoints()
NumPoints(obj) == Product(obj.dims)

\* DataSet::getInMemDataSize(): native element size times number of points
InMemDataSize(obj) == obj.elemSize * NumPoints(obj)

\* the k-th stored value (k from 0) of a dataset
DataAt(obj, k) == RInt(obj.fill[1] + obj.fill[2] * k)

\* DataSpace::selectAll() and getSelectBounds(): start is 0 and end is
\* dims-1 on every axis.  For an extent of 0 the build holds 2^64-1 in end,
\* and end-start+1 wraps to 0 there as it does here.
SelectBounds(dims) ==
    [start |-> [a \in 1..3 |-> 0], end |-> [a \in 1..3 |-> dims[a] - 1]]

Extents == 0..MaxDim

Cube == [1..3 -> Extents]

Fills == {<<4, 0>>, <<1, 2>>, <<10, 10>>, <<5, -2>>}

\* the sizes of the native types float, double and long double
ElemSizes == {4, 8, 16}

OriginCoords == {-1, 0, 2, 11}

Origins == {<<a, b, c>> : a \in OriginCoords, b \in {0, 2}, c \in {0, 11}}

Deltas == {<<1, 1, 1>>, <<2, 1, 9>>}

\* a well-formed Carpet dataset: float, 3-D, with attributes
Plain(dims, fill, origin, delta) ==
    Object("H5G_DATASET", "H5T_FLOAT", dims, 4, fill, TRUE, origin, delta)

\* datasets that differ in element class, rank, extents and element size
ShapeDatasets ==
    { Object("H5G_DATASET", c, d, e, <<10, 10>>, TRUE, <<0, 0, 0>>, <<1, 1, 1>>) :
        c \in {"H5T_FLOAT", "H5T_INTEGER"},
        d \in Cube \cup [1..2 -> 1..2] \cup [1..4 -> 1..2],
        e \in ElemSizes }

\* datasets that differ in their values
ValueDatasets ==
    { Plain(d, f, <<0, 0, 0>>, <<1, 1, 1>>) :
        d \in [1..3 -> 1..2] \cup {<<3, 1, 1>>, <<3, 1, 3>>},
        f \in Fills }

\* objects that take every path through main and writevdb
Coverage ==
    { Group,
      Plain(<<2, 1, 1>>, <<10, 10>>, <<0, 0, 0>>, <<1, 1, 1>>),
      Plain(<<3, 3, 1>>, <<10, 10>>, <<0, 0, 0>>, <<1, 1, 1>>),
      Object("H5G_DATASET", "H5T_INTEGER", <<2, 1, 1>>, 4, <<10, 10>>, TRUE,
             <<0, 0, 0>>, <<1, 1, 1>>),
      Object("H5G_DATASET", "H5T_FLOAT", <<2, 1, 1>>, 4, <<10, 10>>, FALSE,
             <<0, 0, 0>>, <<1, 1, 1>>) }

\* datasets that differ in origin and delta, and the Coverage objects
RunObjects ==
    { Plain(<<2, 1, 1>>, <<10, 10>>, o, d) : o \in Origins, d \in Deltas }
    \cup Coverage

\* the object sequences of length n over S
RECURSIVE SeqsOf(_, _)
SeqsOf(S, n) ==
    IF n = 0 THEN {<< >>}
    ELSE {Append(s, x) : s \in SeqsOf(S, n - 1), x \in S}

Named(objs) == [k \in 1..Len(objs) |-> [objs[k] EXCEPT !.name = NameAt(k)]]

\* the files whose last object is of Last and whose earlier ones are of First
Files(First, Last) ==
    { Named(Append(s, x)) :
        s \in UNION {SeqsOf(First, n) : n \in 0..(MaxObjs - 1)}, x \in Last }

\* the values of --offset
Offsets == {RInt(0), Rat(1, 10), RInt(1)}

\* the file name given to --writevdb
OutName == <<"o", "u", "t">>

VdbSuffix == <<".", "v", "d", "b">>

(* ------------------------------- state --------------------------------- *)

VARIABLES
    file,            \* the objects of the root group of the input file
    mode,            \* "all": --writevdb_all, "single": --dataset --writevdb
    target,          \* the index of the --dataset object ("single")
    normalize,       \* --normalize given
    offset,          \* --offset
    pc,              \* position in main / writevdb
    i,               \* loop index of main (from 1)
    cur,             \* index of the object writevdb was called with
    filename,        \* the filename argument of writevdb
    count,           \* const unsigned count
    start,           \* hsize_t start[3]
    end,             \* hsize_t end[3]
    values,          \* float values[count]
    spill,           \* memory past the end of values written by an overrun
    grid,            \* the FloatGrid under construction
    vdbInitialised,  \* static bool vdbInitialised
    sink,            \* the calls of io::File::write, in order
    error,           \* the exception that ended the run
    log              \* history: the steps done, as <<object index, step>>

input == <<file, mode, target, normalize, offset>>

locals == <<count, start, end, values, spill, grid>>

vars == <<file, mode, target, normalize, offset, pc, i, cur, filename,
          count, start, end, values, spill, grid, vdbInitialised, sink, error,
          log>>

NoGrid == [name |-> << >>, scale |-> <<0, 0, 0>>, translate |-> <<0, 0, 0>>,
           voxels |-> {}, writes |-> << >>, src |-> 0]

InitOn(FileSet, Norms, Offs) ==
    /\ file \in FileSet
    /\ mode \in {"all", "single"}
    /\ target \in IF mode = "single" THEN 1..Len(file) ELSE {0}
    /\ normalize \in Norms
    /\ offset \in Offs
    /\ pc = "main"
    /\ i = 0
    /\ cur = 0
    /\ filename = << >>
    /\ count = 0
    /\ start = <<0, 0, 0>>
    /\ end = <<0, 0, 0>>
    /\ values = << >>
    /\ spill = << >>
    /\ grid = NoGrid
    /\ vdbInitialised = FALSE
    /\ sink = << >>
    /\ error = "none"
    /\ log = << >>

(* ------------------------------- main ---------------------------------- *)

\* what a call of writevdb starts from
Call(k, fname) ==
    /\ pc' = "validate"
    /\ cur' = k
    /\ filename' = fname
    /\ count' = 0
    /\ start' = <<0, 0, 0>>
    /\ end' = <<0, 0, 0>>
    /\ values' = << >>
    /\ spill' = << >>
    /\ grid' = NoGrid

\* an exception leaves writevdb and main: the run is over
Throw(what) ==
    /\ pc' = "failed"
    /\ error' = what

\* main, --writevdb_all given: enter the loop over the objects of the file
StartAll ==
    /\ pc = "main"
    /\ mode = "all"
    /\ pc' = "loop"
    /\ i' = 1
    /\ UNCHANGED <<input, cur, filename, locals, vdbInitialised, sink, error, log>>

\* main, --dataset and --writevdb given: one call of writevdb
StartSingle ==
    /\ pc = "main"
    /\ mode = "single"
    /\ Call(target, OutName)
    /\ UNCHANGED <<input, i, vdbInitialised, sink, error, log>>

\* the loop body for an object that is not a dataset
LoopSkip ==
    /\ pc = "loop"
    /\ i <= Len(file)
    /\ file[i].typeId # "H5G_DATASET"
    /\ i' = i + 1
    /\ UNCHANGED <<input, pc, cur, filename, locals, vdbInitialised, sink, error, log>>

\* a variant of OutputFile that gives every dataset the same file
OutputFileShared(name) == OutName

\* the file name main gives to writevdb for the dataset called name
OutputFile(name) == name \o VdbSuffix

\* the loop body for a dataset: writevdb(file, name, name + ".vdb", ...)
LoopCall ==
    /\ pc = "loop"
    /\ i <= Len(file)
    /\ file[i].typeId = "H5G_DATASET"
    /\ Call(i, OutputFile(file[i].name))
    /\ UNCHANGED <<input, i, vdbInitialised, sink, error, log>>

\* the loop is over: return 0
LoopEnd ==
    /\ pc = "loop"
    /\ i > Len(file)
    /\ pc' = "done"
    /\ UNCHANGED <<input, i, cur, filename, locals, vdbInitialised, sink, error, log>>

(* ------------------------------ writevdb -------------------------------- *)

\* a variant of CountMismatch that never rejects
CountMismatchNever(cnt, computedSize) == FALSE

\* the test count != computedSize
CountMismatch(cnt, computedSize) == cnt # computedSize

\* openDataSet and the checks of the class, the rank and the count
Validate ==
    /\ pc = "validate"
    /\ LET ds == file[cur] IN
       IF ds.typeId # "H5G_DATASET" THEN
           Throw("openDataSet") /\ UNCHANGED <<count, start, end>>
       ELSE IF ds.class # "H5T_FLOAT" THEN
           Throw("OpenVDB output only supports float grids")
           /\ UNCHANGED <<count, start, end>>
       ELSE IF Len(ds.dims) # 3 THEN
           Throw("OpenVDB output only supports 3D grids")
           /\ UNCHANGED <<count, start, end>>
       ELSE
           LET b   == SelectBounds(ds.dims)
               cnt == ToUnsigned(InMemDataSize(ds) \div SizeofFloat)
               computedSize ==
                   ToUnsigned((b.end[1] - b.start[1] + 1)
                              * (b.end[2] - b.start[2] + 1)
                              * (b.end[3] - b.start[3] + 1))
           IN  /\ count' = cnt
               /\ start' = b.start
               /\ end' = b.end
               /\ IF cnt = 0 THEN Throw("Empty grid cannot be used!")
                  ELSE IF CountMismatch(cnt, computedSize)
                  THEN Throw("Something wrong with the data count")
                  ELSE pc' = "read" /\ UNCHANGED error
    /\ UNCHANGED <<input, i, cur, filename, values, spill, grid,
                   vdbInitialised, sink, log>>

\* float values[count]; ds.read(values, type), the data fits the buffer
ReadValues ==
    /\ pc = "read"
    /\ InMemDataSize(file[cur]) <= count * SizeofFloat
    /\ values' = [k \in 1..count |-> DataAt(file[cur], k - 1)]
    /\ pc' = "transform"
    /\ log' = Append(log, <<cur, "read">>)
    /\ UNCHANGED <<input, i, cur, filename, count, start, end, spill, grid,
                   vdbInitialised, sink, error>>

\* what an overrun may leave past the end of the buffer
Garbage == {RInt(0), RInt(-7)}

\* ds.read stores more than the buffer holds.  The behaviour is undefined:
\* the process dies in the library, or it goes on with the memory past the
\* buffer holding the rest of the data or something else.
ReadOverrun ==
    /\ pc = "read"
    /\ InMemDataSize(file[cur]) > count * SizeofFloat
    /\ LET n == InMemDataSize(file[cur]) \div SizeofFloat IN
       \/ /\ pc' = "crashed"
          /\ UNCHANGED <<values, spill>>
       \/ /\ pc' = "transform"
          /\ values' = [k \in 1..count |-> DataAt(file[cur], k - 1)]
          /\ \/ spill' = [k \in 1..(n - count) |-> DataAt(file[cur], count + k - 1)]
             \/ \E g \in Garbage : spill' = [k \in 1..(n - count) |-> g]
    /\ log' = Append(log, <<cur, "read">>)
    /\ UNCHANGED <<input, i, cur, filename, count, start, end, grid,
                   vdbInitialised, sink, error>>

\* the loop that leaves the minimum of vals in min, from min = vals[1]
RECURSIVE MinLoop(_, _, _)
MinLoop(vals, a, min) ==
    IF a > Len(vals) THEN min ELSE MinLoop(vals, a + 1, StdMin(vals[a], min))

RECURSIVE MaxLoop(_, _, _)
MaxLoop(vals, a, max) ==
    IF a > Len(vals) THEN max ELSE MaxLoop(vals, a + 1, StdMax(vals[a], max))

\* the statements under "normalize the values"
TransformValues(vals, norm, off) ==
    IF norm THEN
        LET min == MinLoop(vals, 1, vals[1])
            max == MaxLoop(vals, 1, vals[1])
        IN  [a \in 1..Len(vals) |->
                RAdd(RDiv(RSub(vals[a], min), RSub(max, min)), off)]
    ELSE IF off.n # 0 THEN
        [a \in 1..Len(vals) |-> RAdd(vals[a], off)]
    ELSE vals

Transform ==
    /\ pc = "transform"
    /\ values' = TransformValues(values, normalize, offset)
    /\ pc' = "grid"
    /\ log' = Append(log, <<cur, "transform">>)
    /\ UNCHANGED <<input, i, cur, filename, count, start, end, spill, grid,
                   vdbInitialised, sink, error>>

\* the name given to the new grid: the setName block is commented out, and
\* a grid made by FloatGrid::create() has the empty name
GridName(datasetName) == << >>

\* openvdb::initialize() once, then FloatGrid::create(): an empty grid with
\* the identity transform
CreateGrid ==
    /\ pc = "grid"
    /\ vdbInitialised' = TRUE
    /\ grid' = [name |-> GridName(file[cur].name),
                scale |-> <<1, 1, 1>>, translate |-> <<0, 0, 0>>,
                voxels |-> {}, writes |-> << >>, src |-> cur]
    /\ pc' = "attrs"
    /\ log' = Append(log, <<cur, "grid">>)
    /\ UNCHANGED <<input, i, cur, filename, count, start, end, values, spill,
                   sink, error>>

\* the diagonal and the last row of the Mat4R given to createLinearTransform
LinearTransform(origin, delta) ==
    [scale |-> [a \in 1..3 |-> ToFloat(delta[a])],
     translate |-> [a \in 1..3 |-> ToFloat(origin[a])]]

\* AttrGetter "origin" and "delta", createLinearTransform, setTransform
SetTransform ==
    /\ pc = "attrs"
    /\ IF ~file[cur].hasAttrs THEN
           Throw("openAttribute") /\ UNCHANGED grid
       ELSE
           LET tr == LinearTransform(file[cur].origin, file[cur].delta) IN
           /\ grid' = [grid EXCEPT !.scale = tr.scale, !.translate = tr.translate]
           /\ pc' = "scatter"
           /\ UNCHANGED error
    /\ UNCHANGED <<input, i, cur, filename, count, start, end, values, spill,
                   vdbInitialised, sink, log>>

\* *(ptr++) when ptr is p elements past values
Deref(p) ==
    IF p < count THEN values[p + 1]
    ELSE IF p - count < Len(spill) THEN spill[p - count + 1]
    ELSE RInt(0)

\* openvdb::Coord xyz(x, y, z) for the loop indices x, y, z
CoordOf(x, y, z) == <<ToInt32(x), ToInt32(y), ToInt32(z)>>

\* the calls accessor.setValue(xyz, *(ptr++)) of the three nested loops, in
\* order: x from start[0] to end[0] outermost, z innermost
ScatterWrites(st, en) ==
    LET n1 == en[1] - st[1] + 1
        n2 == en[2] - st[2] + 1
        n3 == en[3] - st[3] + 1
    IN  [k \in 1..(n1 * n2 * n3) |->
            LET p == k - 1
                x == st[1] + (p \div (n2 * n3))
                y == st[2] + ((p \div n3) % n2)
                z == st[3] + (p % n3)
            IN  [xyz |-> CoordOf(x, y, z), pos |-> p, value |-> Deref(p)]]

\* Accessor::setValue for a sequence of calls: the last value set wins
RECURSIVE SetValues(_, _)
SetValues(voxels, ws) ==
    IF ws = << >> THEN voxels
    ELSE LET w == Head(ws) IN
         SetValues({v \in voxels : v.xyz # w.xyz}
                   \cup {[xyz |-> w.xyz, value |-> w.value]}, Tail(ws))

Scatter ==
    /\ pc = "scatter"
    /\ LET ws == ScatterWrites(start, end) IN
       grid' = [grid EXCEPT !.voxels = SetValues(grid.voxels, ws), !.writes = ws]
    /\ pc' = "write"
    /\ log' = Append(log, <<cur, "scatter">>)
    /\ UNCHANGED <<input, i, cur, filename, count, start, end, values, spill,
                   vdbInitialised, sink, error>>

\* a variant of Container that forgets the push_back
ContainerEmpty(g) == << >>

\* the GridPtrVec handed to out.write
Container(g) == <<g>>

\* openvdb::io::File out(filename); out.write(grids); then return to main
WriteFile ==
    /\ pc = "write"
    /\ sink' = Append(sink, [filename |-> filename, grids |-> Container(grid)])
    /\ log' = Append(log, <<cur, "write">>)
    /\ IF mode = "all" THEN pc' = "loop" /\ i' = i + 1
                       ELSE pc' = "done" /\ UNCHANGED i
    /\ UNCHANGED <<input, cur, filename, locals, vdbInitialised, error>>

(* ---------------------------- specifications ---------------------------- *)

Next ==
    \/ StartAll
    \/ StartSingle
    \/ LoopSkip
    \/ LoopCall
    \/ LoopEnd
    \/ Validate
    \/ ReadValues
    \/ ReadOverrun
    \/ Transform
    \/ CreateGrid
    \/ SetTransform
    \/ Scatter
    \/ WriteFile

\* runs over files with datasets of many origins and deltas
Init == InitOn(Files(RunObjects, RunObjects), BOOLEAN, {RInt(0)})

Spec == Init /\ [][Next]_vars

\* runs over files with datasets of many shapes
InitShape == InitOn(Files(Coverage, ShapeDatasets \cup Coverage), BOOLEAN, {RInt(0)})

SpecShape == InitShape /\ [][Next]_vars

\* runs over files with datasets of many values, and all offsets
InitValues == InitOn(Files(Coverage, ValueDatasets \cup Coverage), BOOLEAN, Offsets)

SpecValues == InitValues /\ [][Next]_vars

(* ------------------------ notions of the claims ------------------------- *)

IsDataset(obj) == obj.typeId = "H5G_DATASET"

RECURSIVE Flatten(_)
Flatten(ss) == IF ss = << >> THEN << >> ELSE Head(ss) \o Flatten(Tail(ss))

\* the grids written so far, in the order of writing
WrittenGrids == Flatten([k \in 1..Len(sink) |-> sink[k].grids])

Logged(j, step) == \E e \in 1..Len(log) : log[e] = <<j, step>>

\* the raw values of a dataset
Raw(obj) == {DataAt(obj, k) : k \in 0..(NumPoints(obj) - 1)}

RawMin(obj) == CHOOSE m \in Raw(obj) : \A v \in Raw(obj) : ~RLess(v, m)

RawMax(obj) == CHOOSE m \in Raw(obj) : \A v \in Raw(obj) : ~RLess(m, v)

\* the native index of the k-th value (k from 0) of a block of extents d
NativeIndex(d, k) == <<k \div (d[2] * d[3]), (k \div d[3]) % d[2], k % d[3]>>

\* the blocks whose values were placed in a written grid
BlocksIn(gr) == {gr.src}

\* n/d rounded to the nearest integer, halves away from zero (d > 0)
RoundDiv(n, d) == Sign(n) * ((2 * Abs(n) + d) \div (2 * d))

(* ------------------------------- C1 ------------------------------------- *)

\* the datasets C1 is about
ShapeError(obj) ==
    \/ obj.class # "H5T_FLOAT"
    \/ Len(obj.dims) # 3
    \/ NumPoints(obj) = 0
    \/ InMemDataSize(obj) \div SizeofFloat # Product(obj.dims)

ShapeMessages ==
    {"OpenVDB output only supports float grids",
     "OpenVDB output only supports 3D grids",
     "Empty grid cannot be used!",
     "Something wrong with the data count"}

\* C1: a dataset handed to writevdb whose class is not float, whose rank is
\* not 3, that has no voxels or whose in-memory element count is not the
\* product of its extents ends the run in a fatal error of the validation,
\* and none of read, transform, grid creation, voxel write and file write
\* has been done for it.
C1_ShapeErrorIsFatal ==
    \A j \in 1..Len(file) :
        (IsDataset(file[j]) /\ ShapeError(file[j])) =>
            /\ (cur = j /\ pc # "validate") =>
                   (pc = "failed" /\ error \in ShapeMessages)
            /\ \A e \in 1..Len(log) : log[e][1] # j
            /\ \A g \in 1..Len(WrittenGrids) : WrittenGrids[g].src # j

\* a double dataset was rejected for its count after an earlier dataset
\* had been converted or skipped
C1_Witness ==
    /\ pc = "failed"
    /\ error = "Something wrong with the data count"
    /\ file[cur].elemSize = 8
    /\ NumPoints(file[cur]) > 0

(* ------------------------------- C2 ------------------------------------- *)

\* max == min for the values of the block
Degenerate(obj) == NumPoints(obj) > 0 /\ RawMax(obj) = RawMin(obj)

\* C2: with normalization requested, a block whose values are all equal
\* ends the run in an error: no grid of such a block is ever written, be it
\* with NaN/Inf values or with zeros in their place.
C2_DegenerateNormalizeIsError ==
    normalize =>
        \A g \in 1..Len(WrittenGrids) : ~Degenerate(file[WrittenGrids[g].src])

(* ------------------------------- C3 ------------------------------------- *)

\* the consistency predicate: equal delta, origins a whole number of steps
\* apart on every axis
LatticeConsistent(c, b) ==
    /\ c.delta = b.delta
    /\ \A a \in 1..3 : (b.origin[a] - c.origin[a]) % b.delta[a] = 0

\* the index of the first collection b is consistent with, or 0
FirstMatch(colls, b) ==
    IF \E n \in 1..Len(colls) : LatticeConsistent(colls[n], b)
    THEN CHOOSE n \in 1..Len(colls) :
             /\ LatticeConsistent(colls[n], b)
             /\ \A m \in 1..(n - 1) : ~LatticeConsistent(colls[m], b)
    ELSE 0

\* the collections first-match grouping makes of the blocks js, in order
RECURSIVE Grouped(_, _)
Grouped(js, colls) ==
    IF js = << >> THEN colls
    ELSE LET j == Head(js)
             b == file[j]
             n == FirstMatch(colls, b)
         IN  IF n = 0
             THEN Grouped(Tail(js), Append(colls,
                      [delta |-> b.delta, origin |-> b.origin, members |-> {j}]))
             ELSE Grouped(Tail(js), [colls EXCEPT ![n] =
                      [delta |-> b.delta,
                       origin |-> [a \in 1..3 |->
                           IF b.origin[a] < colls[n].origin[a]
                           THEN b.origin[a] ELSE colls[n].origin[a]],
                       members |-> colls[n].members \cup {j}]])

\* the blocks of the file, in arrival order
RECURSIVE BlocksFrom(_)
BlocksFrom(k) ==
    IF k > Len(file) THEN << >>
    ELSE IF IsDataset(file[k]) THEN <<k>> \o BlocksFrom(k + 1)
    ELSE BlocksFrom(k + 1)

\* the number of datasets of the file
NumBlocks == Len(BlocksFrom(1))

C4_AxesSwapped ==
    pc = "write" =>
        \A k \in 1..Len(grid.writes) :
            LET n == NativeIndex(file[cur].dims, k - 1) IN
            grid.writes[k].xyz = <<n[3], n[2], n[1]>>

(* ------------------------------- C5 ------------------------------------- *)

RECURSIVE BlocksBefore(_, _)
BlocksBefore(j, k) ==
    IF j >= k THEN << >>
    ELSE IF IsDataset(file[j]) THEN <<j>> \o BlocksBefore(j + 1, k)
    ELSE BlocksBefore(j + 1, k)

C6_TransformOncePerBlock ==
    \A g \in 1..Len(WrittenGrids) :
        LET gr  == WrittenGrids[g]
            ds  == file[gr.src]
            min == RawMin(ds)
            max == RawMax(ds)
        IN  \A k \in 1..Len(gr.writes) :
            LET v == DataAt(ds, gr.writes[k].pos)
                w == gr.writes[k].value
            IN  /\ (normalize /\ max # min) =>
                       w = RAdd(RDiv(RSub(v, min), RSub(max, min)), offset)
                /\ ~normalize => w = RAdd(v, offset)
                /\ (normalize /\ max # min /\ offset = RInt(0)) =>
                       /\ IsFinite(w)
                       /\ ~RLess(w, RInt(0))
                       /\ ~RLess(RInt(1), w)
                       /\ v = min => w = RInt(0)
                       /\ v = max => w = RInt(1)

(* ------------------------------- C7 ------------------------------------- *)

MinOf(S) == CHOOSE m \in S : \A x \in S : m <= x

\* C7: the translation of a written grid is the component-wise minimum of
\* the origins of the blocks placed in it, and its diagonal scale is their
\* delta.
C7_TransformIsOriginAndDelta ==
    \A g \in 1..Len(WrittenGrids) :
        LET gr == WrittenGrids[g] IN
        \A a \in 1..3 :
            /\ gr.translate[a] = MinOf({file[j].origin[a] : j \in BlocksIn(gr)})
            /\ \A j \in BlocksIn(gr) : gr.scale[a] = file[j].delta[a]

(* ------------------------------- C8 ------------------------------------- *)

\* round((block.origin[a] - canonical_origin[a]) / block.delta[a])
PlacementOffset(obj, canonical, a) ==
    RoundDiv(obj.origin[a] - canonical[a], obj.delta[a])

\* C8: a block whose placement offset from the recorded origin of its grid
\* is negative in some axis ends the run in an error before any voxel of it
\* is written, so a block whose voxels were written has offsets >= 0 and
\* voxels at non-negative coordinates.
C8_NoNegativeOffset ==
    \A g \in 1..Len(WrittenGrids) :
        LET gr == WrittenGrids[g] IN
        /\ \A j \in BlocksIn(gr) : \A a \in 1..3 :
               PlacementOffset(file[j], gr.translate, a) >= 0
        /\ \A v \in gr.voxels : \A a \in 1..3 : v.xyz[a] >= 0

(* ------------------------------- C9 ------------------------------------- *)

\* the name with every space, colon and equals sign replaced by "_"
Sanitized(name) ==
    [k \in 1..Len(name) |->
        IF name[k] \in {" ", ":", "="} THEN "_" ELSE name[k]]

\* C9: a written grid is named after its dataset with spaces, colons and
\* equals signs replaced by underscores; its name is not empty and holds
\* none of these characters.
C9_GridNameSanitized ==
    \A g \in 1..Len(WrittenGrids) :
        LET gr == WrittenGrids[g] IN
        /\ gr.name = Sanitized(file[gr.src].name)
        /\ gr.name # << >>
        /\ \A k \in 1..Len(gr.name) : gr.name[k] \notin {" ", ":", "="}

(* ------------------------------- C10 ------------------------------------ *)

\* the grid coordinates of the selection bounds
BoundsCoords(st, en) ==
    {CoordOf(x, y, z) : x \in st[1]..en[1], y \in st[2]..en[2], z \in st[3]..en[3]}

\* C10: for a dataset that passed the validation the scatter loop does
\* count voxel writes, reads the buffer positions 0 .. count-1 in order and
\* none past them, and writes every coordinate of the bounds once.
C10_ScatterReadsCount ==
    pc = "write" =>
        /\ Len(grid.writes) = count
        /\ \A k \in 1..Len(grid.writes) :
               grid.writes[k].pos = k - 1 /\ grid.writes[k].pos < count
        /\ {grid.writes[k].xyz : k \in 1..Len(grid.writes)} = BoundsCoords(start, end)
        /\ \A k, l \in 1..Len(grid.writes) :
               k # l => grid.writes[k].xyz # grid.writes[l].xyz

=============================================================================
